---- MODULE Spec2Model ----
(***************************************************************************)
(* A model of the calisthenics tracker of src/src/App.jsx: the 20-week     *)
(* plan generator, the session scoring and recommendation functions, and   *)
(* the state of the App component (pointer, custom targets, logs, draft,   *)
(* localStorage) with one action per event handler.                        *)
(*                                                                         *)
(* Numbers: the code computes the score in IEEE doubles; the model uses    *)
(* exact rationals <<numerator, denominator>> in lowest terms.             *)
(* Strings built by concatenation (item keys, target paths) are sequences  *)
(* of tokens, so that prefix tests are computed and not assumed.           *)
(***************************************************************************)
EXTENDS Integers, Sequences, FiniteSets, TLC

\* ------------------------------------------------------------------ bounds

\* uid() calls (saves) in one run
MaxLogs == 2
\* user operations other than saves, resets and reloads in one run
MaxOps == 1
\* the items already logged when the run starts
InitLogged == 4

\* ------------------------------------------------------------------- utils

Max(a, b) == IF a >= b THEN a ELSE b
Min(a, b) == IF a <= b THEN a ELSE b

clamp(n, a, b) == Max(a, Min(b, n))

RECURSIVE Gcd(_, _)
Gcd(a, b) == IF b = 0 THEN a ELSE Gcd(b, a % b)

\* rationals with a positive denominator, in lowest terms
Rat(n, d) ==
  LET g == Gcd(IF n < 0 THEN -n ELSE n, d)
  IN  IF n = 0 THEN <<0, 1>> ELSE <<n \div g, d \div g>>

RatAdd(x, y) == Rat(x[1] * y[2] + y[1] * x[2], x[2] * y[2])
RatSub(x, y) == Rat(x[1] * y[2] - y[1] * x[2], x[2] * y[2])
RatMul(x, y) == Rat(x[1] * y[1], x[2] * y[2])
RatGeq(x, y) == x[1] * y[2] >= y[1] * x[2]
RatClamp(x, a, b) == IF RatGeq(a, x) THEN a ELSE IF RatGeq(x, b) THEN b ELSE x

Zero == <<0, 1>>
One == <<1, 1>>
Half == <<1, 2>>

EmptyMap == [x \in {} |-> x]
Has(f, k) == k \in DOMAIN f
Put(f, k, v) == [x \in DOMAIN f \cup {k} |-> IF x = k THEN v ELSE f[x]]

Digit == <<"1", "2", "3", "4", "5", "6", "7", "8", "9">>
DigitOf(n) == IF n = 0 THEN "0" ELSE Digit[n]
\* String(n) for 0 <= n <= 99, one token per character
Digits(n) == IF n < 10 THEN <<DigitOf(n)>> ELSE <<DigitOf(n \div 10), DigitOf(n % 10)>>

startsWith(k, prefix) ==
  /\ Len(k) >= Len(prefix)
  /\ SubSeq(k, 1, Len(prefix)) = prefix

\* ---------------------------------------------------------- plan generator

DAYS == <<"A", "B", "C", "D">>
DayIds == {DAYS[i] : i \in 1..Len(DAYS)}

FirstWeek == 1
LastWeek == 20
Weeks == FirstWeek..LastWeek

isDeloadWeek(week) == week = 8 \/ week = 16

\* mutant: no easing on the deload weeks
setsForWeekNoDeload(week) ==
  LET s1 == IF week >= 5 THEN 3 ELSE 2
  IN  IF week >= 13 THEN 4 ELSE s1

setsForWeek(week) ==
  LET s1 == IF week >= 5 THEN 3 ELSE 2
      s2 == IF week >= 13 THEN 4 ELSE s1
  IN  IF isDeloadWeek(week) THEN Max(2, s2 - 1) ELSE s2

\* mutant: the deload reduction without its floor of 4
repsForWeekNoFloor(week, baseReps) ==
  LET reps == baseReps + (week - 1) \div 2
  IN  IF isDeloadWeek(week) THEN reps - 2 ELSE reps

repsForWeek(week, baseReps) ==
  LET add == (week - 1) \div 2
      reps == baseReps + add
  IN  IF isDeloadWeek(week) THEN Max(4, reps - 2) ELSE reps

\* mutant: the deload reduction of 5 seconds, the weekly step, not 10
secondsForWeekStepDeload(week, baseSeconds) ==
  LET s == baseSeconds + ((week - 1) \div 2) * 5
  IN  IF isDeloadWeek(week) THEN Max(10, s - 5) ELSE s

secondsForWeek(week, baseSeconds) ==
  LET add == ((week - 1) \div 2) * 5
      s == baseSeconds + add
  IN  IF isDeloadWeek(week) THEN Max(10, s - 10) ELSE s

\* mutant: every block is the warm-up
BlockAlwaysWarmup(exerciseId) == [type |-> "block", exerciseId |-> "warmup"]

Block(exerciseId) == [type |-> "block", exerciseId |-> exerciseId]
Measured(type, exerciseId, sets, reps, unit) ==
  [type |-> type, exerciseId |-> exerciseId, sets |-> sets, reps |-> reps, unit |-> unit]

\* mutant: session C built with the volumes of sessions A and B
buildWeekPlanHeavyC(week) ==
  LET sets == setsForWeek(week)
      rep(id, base, unit) == Measured("reps", id, sets, repsForWeek(week, base), unit)
      plank == Measured("time", "plank", sets, secondsForWeek(week, 20), "s")
      march == Measured("time", "marchInPlace", 1,
                        IF isDeloadWeek(week) THEN Max(6, clamp(8 + ((week - 1) \div 2), 8, 20) - 4)
                        ELSE clamp(8 + ((week - 1) \div 2), 8, 20), "min")
      warm == Block("warmup")
      cool == Block("cooldown")
      A == [id |-> "A", title |-> "Empuje + Core", items |-> <<
             warm, rep("scapularPushUp", 8, "reps"), rep("inclinePushUp", 6, "reps"),
             rep("gluteBridge", 10, "reps"), rep("deadBug", 6, "reps/lado"), plank, cool >>]
      B == [id |-> "B", title |-> "Pierna + Tiron", items |-> <<
             warm, rep("chairSquat", 8, "reps"), rep("stepUp", 8, "reps/lado"),
             rep("tableRow", 5, "reps"), rep("calfRaise", 10, "reps"), march, cool >>]
      C == [id |-> "C", title |-> "Full body (tecnica)", items |-> <<
             warm, rep("inclinePushUp", 6, "reps"), rep("chairSquat", 8, "reps"),
             rep("tableRow", 5, "reps"), rep("deadBug", 6, "reps/lado"), plank, cool >>]
      D == [id |-> "D", title |-> "Tiron + Core + Suave", items |-> <<
             warm, rep("tableRow", 5, "reps"), rep("gluteBridge", 10, "reps"),
             rep("deadBug", 6, "reps/lado"), plank, march, cool >>]
  IN  [week |-> week, sets |-> sets, sessions |-> <<A, B, C, D>>]

buildWeekPlan(week) ==
  LET sets == setsForWeek(week)
      pushReps == repsForWeek(week, 6)
      squatReps == repsForWeek(week, 8)
      rowReps == repsForWeek(week, 5)
      bridgeReps == repsForWeek(week, 10)
      deadBugReps == repsForWeek(week, 6)
      stepUpReps == repsForWeek(week, 8)
      calfReps == repsForWeek(week, 10)
      scapReps == repsForWeek(week, 8)
      plankSec == secondsForWeek(week, 20)
      marchMin == clamp(8 + ((week - 1) \div 2), 8, 20)
      marchMinDeload == Max(6, marchMin - 4)
      march == Measured("time", "marchInPlace", 1,
                        IF isDeloadWeek(week) THEN marchMinDeload ELSE marchMin, "min")
      warm == Block("warmup")
      cool == Block("cooldown")
      A == [id |-> "A", title |-> "Empuje + Core", items |-> <<
             warm,
             Measured("reps", "scapularPushUp", Max(2, sets - 1), scapReps, "reps"),
             Measured("reps", "inclinePushUp", sets, pushReps, "reps"),
             Measured("reps", "gluteBridge", sets, bridgeReps, "reps"),
             Measured("reps", "deadBug", sets, deadBugReps, "reps/lado"),
             Measured("time", "plank", sets, plankSec, "s"),
             cool >>]
      B == [id |-> "B", title |-> "Pierna + Tiron", items |-> <<
             warm,
             Measured("reps", "chairSquat", sets, squatReps, "reps"),
             Measured("reps", "stepUp", sets, stepUpReps, "reps/lado"),
             Measured("reps", "tableRow", sets, rowReps, "reps"),
             Measured("reps", "calfRaise", Max(2, sets - 1), calfReps, "reps"),
             march,
             cool >>]
      C == [id |-> "C", title |-> "Full body (tecnica)", items |-> <<
             warm,
             Measured("reps", "inclinePushUp", Max(2, sets - 1), Max(4, pushReps - 1), "reps"),
             Measured("reps", "chairSquat", Max(2, sets - 1), Max(6, squatReps - 2), "reps"),
             Measured("reps", "tableRow", Max(2, sets - 1), Max(4, rowReps - 1), "reps"),
             Measured("reps", "deadBug", Max(2, sets - 1), Max(5, deadBugReps - 1), "reps/lado"),
             Measured("time", "plank", Max(2, sets - 1), Max(15, plankSec - 5), "s"),
             cool >>]
      D == [id |-> "D", title |-> "Tiron + Core + Suave", items |-> <<
             warm,
             Measured("reps", "tableRow", sets, rowReps, "reps"),
             Measured("reps", "gluteBridge", Max(2, sets - 1), bridgeReps, "reps"),
             Measured("reps", "deadBug", sets, deadBugReps, "reps/lado"),
             Measured("time", "plank", sets, plankSec, "s"),
             march,
             cool >>]
  IN  [week |-> week, sets |-> sets, sessions |-> <<A, B, C, D>>]

getPlan20Weeks == [w \in Weeks |-> buildWeekPlan(w)]

\* the key `${it.exerciseId}:${idx}` of the item at 0-based index idx
itemKeyOf(it, idx) == <<it.exerciseId, ":">> \o Digits(idx)

\* 0-based indices of the measured (non-block) items of an item list
MeasuredIdx(items) == {i \in 0..(Len(items) - 1) : items[i + 1].type # "block"}

\* ------------------------------------------------- scoring / recommendation

\* a?.field ?? 0
FieldOr0(actualByItemId, key, field) ==
  IF Has(actualByItemId, key) /\ field \in DOMAIN actualByItemId[key]
  THEN actualByItemId[key][field] ELSE 0

\* t = targetsByItemId[itemKey] ?? { sets: it.sets, reps: it.reps }
TargetOf(targetsByItemId, it, key) ==
  IF Has(targetsByItemId, key) THEN targetsByItemId[key]
  ELSE [sets |-> it.sets, reps |-> it.reps]

\* mutant: a count above the target scored as a miss
itemScoreExactOnly(it, idx, actualByItemId, targetsByItemId) ==
  LET key == itemKeyOf(it, idx)
      t == TargetOf(targetsByItemId, it, key)
      targetSets == Max(1, t.sets)
      targetReps == Max(1, t.reps)
      setsDone == Max(0, FieldOr0(actualByItemId, key, "setsDone"))
      repsDone == Max(0, FieldOr0(actualByItemId, key, "repsDone"))
      setsRatio == IF setsDone > targetSets THEN Zero ELSE Rat(setsDone, targetSets)
      repsRatio == IF repsDone > targetReps THEN Zero ELSE Rat(repsDone, targetReps)
  IN  RatAdd(RatMul(Half, setsRatio), RatMul(Half, repsRatio))

itemScore(it, idx, actualByItemId, targetsByItemId) ==
  LET key == itemKeyOf(it, idx)
      t == TargetOf(targetsByItemId, it, key)
      targetSets == Max(1, t.sets)
      targetReps == Max(1, t.reps)
      setsDone == Max(0, FieldOr0(actualByItemId, key, "setsDone"))
      repsDone == Max(0, FieldOr0(actualByItemId, key, "repsDone"))
      setsRatio == RatClamp(Rat(setsDone, targetSets), Zero, One)
      repsRatio == RatClamp(Rat(repsDone, targetReps), Zero, One)
  IN  RatAdd(RatMul(Half, setsRatio), RatMul(Half, repsRatio))

RECURSIVE SumScores(_, _, _, _)
SumScores(items, n, actualByItemId, targetsByItemId) ==
  IF n = 0 THEN Zero
  ELSE LET rest == SumScores(items, n - 1, actualByItemId, targetsByItemId)
       IN  IF items[n].type = "block" THEN rest
           ELSE RatAdd(rest, itemScore(items[n], n - 1, actualByItemId, targetsByItemId))

\* mutant: a quarter taken off at effort 9 and above
rpePenaltyQuarter(rpe) == IF rpe >= 9 THEN <<1, 4>> ELSE IF rpe >= 8 THEN <<1, 10>> ELSE Zero

\* mutant: the penalties one effort point late
rpePenaltyLate(rpe) == IF rpe >= 10 THEN <<1, 5>> ELSE IF rpe >= 9 THEN <<1, 10>> ELSE Zero

rpePenalty(rpe) == IF rpe >= 9 THEN <<1, 5>> ELSE IF rpe >= 8 THEN <<1, 10>> ELSE Zero

scoreSession(items, actualByItemId, targetsByItemId, rpe) ==
  LET total == Cardinality(MeasuredIdx(items))
      sum == SumScores(items, Len(items), actualByItemId, targetsByItemId)
      pct == IF total = 0 THEN Zero ELSE RatMul(sum, <<1, total>>)
      score == RatClamp(RatSub(pct, rpePenalty(rpe)), Zero, One)
  IN  [pct |-> pct, score |-> score]

AdvanceThreshold == <<4, 5>>
HoldThreshold == <<11, 20>>

\* mutant: the thresholds taken as strict
recommendationStrict(scoreObj) ==
  IF RatGeq(scoreObj.score, AdvanceThreshold) /\ scoreObj.score # AdvanceThreshold THEN "advance"
  ELSE IF RatGeq(scoreObj.score, HoldThreshold) /\ scoreObj.score # HoldThreshold THEN "hold"
  ELSE "reduce"

recommendationFromScore(scoreObj) ==
  IF RatGeq(scoreObj.score, AdvanceThreshold) THEN "advance"
  ELSE IF RatGeq(scoreObj.score, HoldThreshold) THEN "hold"
  ELSE "reduce"

\* mutant: a proposal that lowers the sets and keeps the reps
suggestionForSetsOnly(it, idx, actualByItemId, targetsByItemId) ==
  LET key == itemKeyOf(it, idx)
      t == TargetOf(targetsByItemId, it, key)
      targetSets == Max(1, t.sets)
      targetReps == Max(1, t.reps)
      setsDone == FieldOr0(actualByItemId, key, "setsDone")
      noData == ~Has(actualByItemId, key)
      newSets == IF noData \/ setsDone < targetSets THEN Max(1, targetSets - 1) ELSE targetSets
  IN  IF newSets = targetSets THEN <<>>
      ELSE << [itemKey |-> key, exerciseId |-> it.exerciseId,
               from |-> [sets |-> targetSets, reps |-> targetReps, unit |-> it.unit],
               to |-> [sets |-> newSets, reps |-> targetReps, unit |-> it.unit]] >>

\* mutant: minutes reduced by 5 like seconds
suggestionForFlatDelta(it, idx, actualByItemId, targetsByItemId) ==
  LET key == itemKeyOf(it, idx)
      t == TargetOf(targetsByItemId, it, key)
      targetSets == Max(1, t.sets)
      targetReps == Max(1, t.reps)
      setsDone == FieldOr0(actualByItemId, key, "setsDone")
      repsDone == FieldOr0(actualByItemId, key, "repsDone")
      noData == ~Has(actualByItemId, key)
      newSets == IF noData \/ setsDone < targetSets THEN Max(1, targetSets - 1) ELSE targetSets
      delta == IF it.type = "time" THEN 5 ELSE 2
      newReps == IF noData \/ repsDone < targetReps THEN Max(1, targetReps - delta) ELSE targetReps
  IN  IF newSets = targetSets /\ newReps = targetReps THEN <<>>
      ELSE << [itemKey |-> key, exerciseId |-> it.exerciseId,
               from |-> [sets |-> targetSets, reps |-> targetReps, unit |-> it.unit],
               to |-> [sets |-> newSets, reps |-> newReps, unit |-> it.unit]] >>

\* the proposal for one measured item, or <<>> when newSets and newReps equal the target
suggestionFor(it, idx, actualByItemId, targetsByItemId) ==
  LET key == itemKeyOf(it, idx)
      t == TargetOf(targetsByItemId, it, key)
      targetSets == Max(1, t.sets)
      targetReps == Max(1, t.reps)
      setsDone == FieldOr0(actualByItemId, key, "setsDone")
      repsDone == FieldOr0(actualByItemId, key, "repsDone")
      noData == ~Has(actualByItemId, key)
      newSets == IF noData \/ setsDone < targetSets THEN Max(1, targetSets - 1) ELSE targetSets
      delta == IF it.type = "time" THEN (IF it.unit = "min" THEN 1 ELSE 5) ELSE 2
      newReps == IF noData \/ repsDone < targetReps THEN Max(1, targetReps - delta) ELSE targetReps
  IN  IF newSets = targetSets /\ newReps = targetReps THEN <<>>
      ELSE << [itemKey |-> key, exerciseId |-> it.exerciseId,
               from |-> [sets |-> targetSets, reps |-> targetReps, unit |-> it.unit],
               to |-> [sets |-> newSets, reps |-> newReps, unit |-> it.unit]] >>

\* mutant: the proposals collected in reverse item order
RECURSIVE SuggestUpToReversed(_, _, _, _)
SuggestUpToReversed(items, n, actualByItemId, targetsByItemId) ==
  IF n = 0 THEN <<>>
  ELSE LET rest == SuggestUpToReversed(items, n - 1, actualByItemId, targetsByItemId)
       IN  IF items[n].type = "block" THEN rest
           ELSE suggestionFor(items[n], n - 1, actualByItemId, targetsByItemId) \o rest

RECURSIVE SuggestUpTo(_, _, _, _)
SuggestUpTo(items, n, actualByItemId, targetsByItemId) ==
  IF n = 0 THEN <<>>
  ELSE LET rest == SuggestUpTo(items, n - 1, actualByItemId, targetsByItemId)
       IN  IF items[n].type = "block" THEN rest
           ELSE rest \o suggestionFor(items[n], n - 1, actualByItemId, targetsByItemId)

suggestReduction(items, actualByItemId, targetsByItemId) ==
  SuggestUpTo(items, Len(items), actualByItemId, targetsByItemId)

\* ------------------------------------------------------------ the App state

VARIABLES
  plan,            \* the plan App memoises at construction: week -> week object
  appState,        \* [week, dayId, smartProgression]
  customTargets,   \* target path -> [sets, reps]
  logs,            \* [order: sequence of log ids, byId: log id -> log]
  draft,           \* [actualByItemId, rpe, completed, date]
  storage,         \* localStorage: LS key -> stored text
  today,           \* the date todayISO() returns
  nextId,          \* the number of ids uid() has handed out
  ops,             \* user operations counted against MaxOps so far
  probe            \* a pure function's input and result (function specifications)

vars == <<plan, appState, customTargets, logs, draft, storage, today, nextId, ops, probe>>

LS_KEYS == [state |-> "calisthenics_mobile_state_v2",
            logs |-> "calisthenics_mobile_logs_v2",
            targets |-> "calisthenics_mobile_targets_v2"]

\* what localStorage holds under a key: nothing, the JSON text of a value, or
\* text JSON.parse rejects
Absent == [kind |-> "absent"]
Json(v) == [kind |-> "json", value |-> v]
Garbage == [kind |-> "garbage"]

loadLS(st, key, fallback) ==
  IF st[key].kind = "absent" THEN fallback
  ELSE IF st[key].kind = "json" THEN st[key].value
  ELSE fallback

saveLS(st, key, value) == [st EXCEPT ![key] = Json(value)]

removeItem(st, key) == [st EXCEPT ![key] = Absent]

EmptyStorage == [k \in {LS_KEYS.state, LS_KEYS.logs, LS_KEYS.targets} |-> Absent]

DefaultAppState == [week |-> 1, dayId |-> "A", smartProgression |-> TRUE]
DefaultLogs == [order |-> <<>>, byId |-> EmptyMap]
DefaultDraft(date) ==
  [actualByItemId |-> EmptyMap, rpe |-> 7, completed |-> FALSE, date |-> date]

\* the three persistence effects, run after a render in which the values changed
Persist(st, a, t, l) ==
  saveLS(saveLS(saveLS(st, LS_KEYS.state, a), LS_KEYS.targets, t), LS_KEYS.logs, l)

\* ------------------------------------------------------- values of a render

targetPath(week, dayId, itemKey) == Digits(week) \o <<"-", dayId, "-">> \o itemKey

sessionKeyOf(a) == Digits(a.week) \o <<"-", a.dayId>>
sessionKey == sessionKeyOf(appState)

\* plan.find((w) => w.week === appState.week) ?? plan[0]
weekObjOf(a) ==
  IF a.week \in DOMAIN plan THEN plan[a.week]
  ELSE plan[FirstWeek]

\* weekObj.sessions.find((s) => s.id === appState.dayId) ?? weekObj.sessions[0]
sessionOf(a) ==
  LET ss == weekObjOf(a).sessions
  IN  IF \E i \in 1..Len(ss) : ss[i].id = a.dayId
      THEN ss[CHOOSE i \in 1..Len(ss) : ss[i].id = a.dayId]
      ELSE ss[1]

session == sessionOf(appState)

\* mutant: the week left out of the lookup
getCustomTargetAnyWeek(a, ct, it, idx) ==
  LET suffix == <<"-", a.dayId, "-">> \o itemKeyOf(it, idx)
      hits == {q \in DOMAIN ct : /\ Len(q) >= Len(suffix)
                                 /\ SubSeq(q, Len(q) - Len(suffix) + 1, Len(q)) = suffix}
  IN  IF hits # {} THEN <<ct[CHOOSE q \in hits : TRUE]>> ELSE <<>>

getCustomTargetForItem(a, ct, it, idx) ==
  LET path == targetPath(a.week, a.dayId, itemKeyOf(it, idx))
  IN  IF Has(ct, path) THEN <<ct[path]>> ELSE <<>>

targetsByItemIdOf(a, ct) ==
  LET items == sessionOf(a).items
      keyAt(i) == itemKeyOf(items[i + 1], i)
      keys == {keyAt(i) : i \in MeasuredIdx(items)}
      idxOf(k) == CHOOSE i \in MeasuredIdx(items) : keyAt(i) = k
  IN  [k \in keys |->
        LET i == idxOf(k)
            c == getCustomTargetForItem(a, ct, items[i + 1], i)
        IN  IF c # <<>> THEN [sets |-> c[1].sets, reps |-> c[1].reps]
            ELSE [sets |-> items[i + 1].sets, reps |-> items[i + 1].reps]]

targetsByItemId == targetsByItemIdOf(appState, customTargets)

scoreObj == scoreSession(session.items, draft.actualByItemId, targetsByItemId, draft.rpe)

rec == recommendationFromScore(scoreObj)

reduceSuggestions ==
  IF rec # "reduce" THEN <<>>
  ELSE suggestReduction(session.items, draft.actualByItemId, targetsByItemId)

\* ------------------------------------------------------------------ handlers

\* mutant: the current target written back instead of the proposed one
RECURSIVE applyFrom(_, _, _, _)
applyFrom(ct, a, suggestions, n) ==
  IF n = 0 THEN ct
  ELSE LET sug == suggestions[n]
           path == targetPath(a.week, a.dayId, sug.itemKey)
       IN  Put(applyFrom(ct, a, suggestions, n - 1), path,
               [sets |-> sug.from.sets, reps |-> sug.from.reps])

RECURSIVE applyTo(_, _, _, _)
applyTo(ct, a, suggestions, n) ==
  IF n = 0 THEN ct
  ELSE LET sug == suggestions[n]
           path == targetPath(a.week, a.dayId, sug.itemKey)
       IN  Put(applyTo(ct, a, suggestions, n - 1), path,
               [sets |-> sug.to.sets, reps |-> sug.to.reps])

\* the custom targets after applySuggestions(suggestions)
applySuggestions(ct, a, suggestions) ==
  IF Len(suggestions) = 0 THEN ct ELSE applyTo(ct, a, suggestions, Len(suggestions))

\* mutant: the clear removing a single custom target of the session
clearOneSessionTarget(ct, a) ==
  LET prefix == Digits(a.week) \o <<"-", a.dayId, "-">>
      mine == {p \in DOMAIN ct : startsWith(p, prefix)}
  IN  IF mine = {} THEN ct
      ELSE [k \in DOMAIN ct \ {CHOOSE p \in mine : TRUE} |-> ct[k]]

\* mutant: the clear matching the day letter in any week
clearDayTargets(ct, a) ==
  LET ofDay(p) == \E w \in Weeks : startsWith(p, Digits(w) \o <<"-", a.dayId, "-">>)
  IN  [k \in {p \in DOMAIN ct : ~ofDay(p)} |-> ct[k]]

\* the custom targets after clearSessionTargets()
clearSessionTargets(ct, a) ==
  LET prefix == Digits(a.week) \o <<"-", a.dayId, "-">>
  IN  [k \in {p \in DOMAIN ct : ~startsWith(p, prefix)} |-> ct[k]]

\* mutant: no reset of the draft when the session changes
draftEffectKeeps(a, aNext, d) == d

\* the draft-reset effect on [sessionKey]: d is the draft the handler left
draftEffect(a, aNext, d) ==
  IF sessionKeyOf(aNext) # sessionKeyOf(a) THEN DefaultDraft(today) ELSE d

\* the day a save moves to: DAYS[idx + 1] or the wrap to "A"
dayIndex(dayId) ==
  IF \E i \in 1..Len(DAYS) : DAYS[i] = dayId
  THEN (CHOOSE i \in 1..Len(DAYS) : DAYS[i] = dayId) - 1
  ELSE -1

\* mutant: the week incremented without the clamp
advanceUnclamped(a) ==
  LET idx == dayIndex(a.dayId)
  IN  IF idx < Len(DAYS) - 1 THEN [a EXCEPT !.dayId = DAYS[idx + 2]]
      ELSE [a EXCEPT !.week = a.week + 1, !.dayId = "A"]

\* mutant: every advance starts the next week
advanceWeekEveryDay(a) ==
  LET idx == dayIndex(a.dayId)
  IN  IF idx < Len(DAYS) - 1
      THEN [a EXCEPT !.week = clamp(a.week + 1, FirstWeek, LastWeek), !.dayId = DAYS[idx + 2]]
      ELSE [a EXCEPT !.week = clamp(a.week + 1, FirstWeek, LastWeek), !.dayId = "A"]

advanceState(a) ==
  LET idx == dayIndex(a.dayId)
  IN  IF idx < Len(DAYS) - 1 THEN [a EXCEPT !.dayId = DAYS[idx + 2]]
      ELSE [a EXCEPT !.week = clamp(a.week + 1, FirstWeek, LastWeek), !.dayId = "A"]

\* mutant: the wrap of a hold treated as the wrap of an advance
holdBumpsWeek(a) ==
  LET idx == dayIndex(a.dayId)
  IN  IF idx < Len(DAYS) - 1 THEN [a EXCEPT !.dayId = DAYS[idx + 2]]
      ELSE [a EXCEPT !.week = clamp(a.week + 1, FirstWeek, LastWeek), !.dayId = "A"]

holdState(a) ==
  LET idx == dayIndex(a.dayId)
  IN  IF idx < Len(DAYS) - 1 THEN [a EXCEPT !.dayId = DAYS[idx + 2]]
      ELSE [a EXCEPT !.dayId = "A"]

\* mutant: every level but advance moves like a hold
progressReduceMoves(a, level) ==
  IF a.smartProgression
  THEN IF level = "advance" THEN advanceState(a) ELSE holdState(a)
  ELSE a

\* the pointer after saveSession, given the recommendation level
progress(a, level) ==
  IF a.smartProgression
  THEN IF level = "advance" THEN advanceState(a)
       ELSE IF level = "hold" THEN holdState(a)
       ELSE a
  ELSE a

\* mutant: the suggestions applied whatever the toggle says
targetsAfterSaveAnyToggle(ct, a, level, suggestions) ==
  LET suggestionsToApply == IF level = "reduce" THEN suggestions ELSE <<>>
  IN  IF level = "reduce" /\ Len(suggestionsToApply) > 0
      THEN applySuggestions(ct, a, suggestionsToApply)
      ELSE ct

\* the custom targets after saveSession
targetsAfterSave(ct, a, level, suggestions) ==
  LET suggestionsToApply == IF level = "reduce" THEN suggestions ELSE <<>>
  IN  IF a.smartProgression /\ level = "reduce" /\ Len(suggestionsToApply) > 0
      THEN applySuggestions(ct, a, suggestionsToApply)
      ELSE ct

\* mutant: the compliance stored as the score
payloadPctAsScore(id) ==
  [id |-> id, createdAt |-> today, date |-> draft.date,
   week |-> appState.week, dayId |-> appState.dayId, sessionTitle |-> session.title,
   rpe |-> draft.rpe, score |-> scoreObj.pct, pct |-> scoreObj.pct,
   recommendation |-> rec, actualByItemId |-> draft.actualByItemId, completed |-> TRUE]

\* the log saveSession builds
payloadOf(id) ==
  [id |-> id, createdAt |-> today, date |-> draft.date,
   week |-> appState.week, dayId |-> appState.dayId, sessionTitle |-> session.title,
   rpe |-> draft.rpe, score |-> scoreObj.score, pct |-> scoreObj.pct,
   recommendation |-> rec, actualByItemId |-> draft.actualByItemId, completed |-> TRUE]

\* mutant: the by-id mapping rebuilt from the new log alone
prependForgetting(prev, id, payload) ==
  [order |-> <<id>> \o prev.order, byId |-> Put(EmptyMap, id, payload)]

prependLog(prev, id, payload) ==
  [order |-> <<id>> \o prev.order, byId |-> Put(prev.byId, id, payload)]

\* --------------------------------------------------------------------- Init

\* what an earlier run of the App may have left in localStorage: nothing, or
\* the records it writes (a pointer, optionally with one lowered target of
\* that session)
storedWith(w, d, smart, ct) ==
  Persist(EmptyStorage, [week |-> w, dayId |-> d, smartProgression |-> smart], ct, DefaultLogs)

loweredFirst(w, d) ==
  LET a == [week |-> w, dayId |-> d, smartProgression |-> TRUE]
      items == sessionOf(a).items
      i == CHOOSE j \in MeasuredIdx(items) : \A k \in MeasuredIdx(items) : j <= k
  IN  Put(EmptyMap, targetPath(w, d, itemKeyOf(items[i + 1], i)), [sets |-> 1, reps |-> 2])

InitStorage ==
  { EmptyStorage,
    storedWith(5, "D", TRUE, loweredFirst(5, "D")),
    storedWith(20, "D", TRUE, EmptyMap),
    storedWith(8, "C", FALSE, EmptyMap) }

\* mutant: one unreadable record discards all three
MountAllOrNothing(st) ==
  LET readable == \A k \in {LS_KEYS.state, LS_KEYS.targets, LS_KEYS.logs} : st[k].kind = "json"
      a == IF readable THEN st[LS_KEYS.state].value ELSE DefaultAppState
      t == IF readable THEN st[LS_KEYS.targets].value ELSE EmptyMap
      l == IF readable THEN st[LS_KEYS.logs].value ELSE DefaultLogs
  IN  [appState |-> a, customTargets |-> t, logs |-> l, storage |-> Persist(st, a, t, l)]

\* construction of App: the three useState initialisers, then the effects of
\* the first render
Mount(st) ==
  LET a == loadLS(st, LS_KEYS.state, DefaultAppState)
      t == loadLS(st, LS_KEYS.targets, EmptyMap)
      l == loadLS(st, LS_KEYS.logs, DefaultLogs)
  IN  [appState |-> a, customTargets |-> t, logs |-> l, storage |-> Persist(st, a, t, l)]

\* the result the user reports when an item's target t is met in full
metActual(t) == [setsDone |-> t.sets, repsDone |-> t.reps]

\* the draft after the user has logged the first n measured items of the
\* session of pointer a as met, in session order (n calls of setActualForItem)
loggedFirst(a, ct, n) ==
  LET items == sessionOf(a).items
      done == {i \in MeasuredIdx(items) : Cardinality({j \in MeasuredIdx(items) : j < i}) < n}
      keyAt(i) == itemKeyOf(items[i + 1], i)
  IN  [k \in {keyAt(i) : i \in done} |-> metActual(targetsByItemIdOf(a, ct)[k])]

NoProbe == [kind |-> "none"]

\* the App as constructed from localStorage, and then mid-session: the first
\* n items of the session logged
Init ==
  /\ plan = getPlan20Weeks
  /\ \E st \in InitStorage :
      /\ appState = Mount(st).appState
      /\ customTargets = Mount(st).customTargets
      /\ logs = Mount(st).logs
      /\ storage = Mount(st).storage
      /\ today = 0
      /\ draft = [DefaultDraft(0) EXCEPT
                    !.actualByItemId = loggedFirst(Mount(st).appState, Mount(st).customTargets, InitLogged)]
      /\ nextId = 0
      /\ ops = 0
      /\ probe = NoProbe

\* ------------------------------------------------------------------ actions

\* a handler that sets appState to a (and nothing else but the draft it leaves)
setAppState(a, d) ==
  /\ appState' = a
  /\ draft' = draftEffect(appState, a, d)
  /\ storage' = Persist(storage, a, customTargets, logs)
  /\ UNCHANGED <<customTargets, logs, today, nextId>>

setCustomTargets(ct) ==
  /\ customTargets' = ct
  /\ storage' = Persist(storage, appState, ct, logs)
  /\ UNCHANGED <<appState, logs, draft, today, nextId>>

setDraft(d) ==
  /\ draft' = d
  /\ UNCHANGED <<appState, customTargets, logs, storage, today, nextId>>

\* a user operation counted against the budget; the memoised plan never changes
UseOp == ops < MaxOps /\ ops' = ops + 1 /\ UNCHANGED <<plan, probe>>
NoBudget == UNCHANGED <<plan, ops, probe>>

\* mutant: the week decremented without the clamp
goPrevWeekUnclamped ==
  /\ UseOp
  /\ setAppState([appState EXCEPT !.week = appState.week - 1], draft)

goPrevWeek ==
  /\ UseOp
  /\ setAppState([appState EXCEPT !.week = clamp(appState.week - 1, FirstWeek, LastWeek)], draft)

goNextWeek ==
  /\ UseOp
  /\ setAppState([appState EXCEPT !.week = clamp(appState.week + 1, FirstWeek, LastWeek)], draft)

setDay(dayId) ==
  /\ UseOp
  /\ setAppState([appState EXCEPT !.dayId = dayId], draft)

toggleSmartProgression ==
  /\ UseOp
  /\ setAppState([appState EXCEPT !.smartProgression = ~appState.smartProgression], draft)

\* mutant: the stepper without its limits
StepperUnclamped(value, dir, min, max) == value + dir

\* Stepper: the value its minus (dir = -1) or plus (dir = 1) button reports
Stepper(value, dir, min, max) == clamp(value + dir, min, max)

\* mutant: the target stored without the spread of the earlier targets
setCustomTargetAlone(ct, a, it, idx, target) ==
  Put(EmptyMap, targetPath(a.week, a.dayId, itemKeyOf(it, idx)), target)

setCustomTargetForItem(ct, a, it, idx, target) ==
  Put(ct, targetPath(a.week, a.dayId, itemKeyOf(it, idx)), target)

\* SessionItem, "Series" stepper of the target
changeTargetSets(idx, dir) ==
  LET it == session.items[idx + 1]
      t == targetsByItemId[itemKeyOf(it, idx)]
      v == Stepper(t.sets, dir, 1, 10)
  IN  /\ UseOp
      /\ setCustomTargets(setCustomTargetForItem(customTargets, appState, it, idx,
                                                 [sets |-> v, reps |-> t.reps]))

\* SessionItem, "Reps"/"Tiempo" stepper of the target
changeTargetReps(idx, dir) ==
  LET it == session.items[idx + 1]
      t == targetsByItemId[itemKeyOf(it, idx)]
      v == Stepper(t.reps, dir, 1, 200)
  IN  /\ UseOp
      /\ setCustomTargets(setCustomTargetForItem(customTargets, appState, it, idx,
                                                 [sets |-> t.sets, reps |-> v]))

\* the "Aplicar" button of the reduce panel
clickApply ==
  /\ rec = "reduce"
  /\ Len(reduceSuggestions) > 0
  /\ UseOp
  /\ setCustomTargets(applySuggestions(customTargets, appState, reduceSuggestions))

\* the "Quitar objetivos personalizados" button of the reduce panel
clickClearSessionTargets ==
  /\ rec = "reduce"
  /\ NoBudget
  /\ setCustomTargets(clearSessionTargets(customTargets, appState))

\* the measured items the user may log next: the exercises are logged in
\* session order (the last logged item may be logged again)
LoggableIdx ==
  LET items == session.items
      logged(i) == Has(draft.actualByItemId, itemKeyOf(items[i + 1], i))
  IN  {i \in MeasuredIdx(items) :
         /\ \A j \in MeasuredIdx(items) : j < i => logged(j)
         /\ \A j \in MeasuredIdx(items) : j > i => ~logged(j)}

\* the results a user reports for an item whose target is t: all of it, the
\* sets only (reps never entered), the reps only (sets never entered)
ActualInputs(t) ==
  { metActual(t), [setsDone |-> t.sets], [repsDone |-> t.reps] }

setActualForItem(idx, actual) ==
  LET it == session.items[idx + 1]
  IN  /\ UseOp
      /\ setDraft([draft EXCEPT !.actualByItemId = Put(@, itemKeyOf(it, idx), actual)])

RpeInputs == {8, 9}

setRpe(v) ==
  /\ UseOp
  /\ setDraft([draft EXCEPT !.rpe = v])

\* the "Limpiar resultados" button
clearDraft ==
  /\ NoBudget
  /\ setDraft(DefaultDraft(today))

saveSession ==
  LET id == nextId
      a == progress(appState, rec)
      ct == targetsAfterSave(customTargets, appState, rec, reduceSuggestions)
      l == prependLog(logs, id, payloadOf(id))
  IN  /\ nextId < MaxLogs
      /\ nextId' = nextId + 1
      /\ customTargets' = ct
      /\ logs' = l
      /\ appState' = a
      /\ draft' = draftEffect(appState, a, DefaultDraft(today))
      /\ storage' = Persist(storage, a, ct, l)
      /\ UNCHANGED today
      /\ NoBudget

\* mutant: the custom targets removed from storage but kept in memory
resetAllKeepsTargets(confirmed) ==
  IF ~confirmed THEN UNCHANGED vars
  ELSE LET cleared == removeItem(removeItem(removeItem(storage, LS_KEYS.state),
                                            LS_KEYS.targets), LS_KEYS.logs)
       IN  /\ appState' = DefaultAppState
           /\ UNCHANGED customTargets
           /\ logs' = DefaultLogs
           /\ draft' = DefaultDraft(today)
           /\ storage' = Persist(cleared, DefaultAppState, customTargets, DefaultLogs)
           /\ UNCHANGED <<today, nextId>>
           /\ NoBudget

resetAll(confirmed) ==
  IF ~confirmed THEN UNCHANGED vars
  ELSE LET cleared == removeItem(removeItem(removeItem(storage, LS_KEYS.state),
                                            LS_KEYS.targets), LS_KEYS.logs)
       IN  /\ appState' = DefaultAppState
           /\ customTargets' = EmptyMap
           /\ logs' = DefaultLogs
           /\ draft' = DefaultDraft(today)
           /\ storage' = Persist(cleared, DefaultAppState, EmptyMap, DefaultLogs)
           /\ UNCHANGED <<today, nextId>>
           /\ NoBudget

\* the calendar date changes
newDay ==
  /\ UseOp
  /\ today' = today + 1
  /\ UNCHANGED <<appState, customTargets, logs, draft, storage, nextId>>

\* the page is closed and opened again: App is constructed from localStorage
reload ==
  /\ appState' = Mount(storage).appState
  /\ customTargets' = Mount(storage).customTargets
  /\ logs' = Mount(storage).logs
  /\ storage' = Mount(storage).storage
  /\ draft' = DefaultDraft(today)
  /\ UNCHANGED <<today, nextId>>
  /\ NoBudget

Next ==
  \/ goPrevWeek
  \/ goNextWeek
  \/ \E d \in DayIds : setDay(d)
  \/ toggleSmartProgression
  \/ \E i \in LoggableIdx, dir \in {-1, 1} : changeTargetSets(i, dir)
  \/ \E i \in LoggableIdx, dir \in {-1, 1} : changeTargetReps(i, dir)
  \/ clickApply
  \/ clickClearSessionTargets
  \/ \E i \in LoggableIdx :
       \E actual \in ActualInputs(targetsByItemId[itemKeyOf(session.items[i + 1], i)]) :
         setActualForItem(i, actual)
  \/ \E v \in RpeInputs : setRpe(v)
  \/ clearDraft
  \/ saveSession
  \/ \E confirmed \in BOOLEAN : resetAll(confirmed)
  \/ newDay
  \/ reload

Spec == Init /\ [][Next]_vars

\* ------------------------------------------- recommendationFromScore alone

\* the largest denominator of the scores tried
MaxDen == 20

\* scores in [0, 1]: every fraction up to the denominator bound, and the two
\* values just below the thresholds
ScoreInputs ==
  {Rat(x[1], x[2]) : x \in {y \in (0..MaxDen) \X (1..MaxDen) : y[1] <= y[2]}}
    \cup {<<799999, 1000000>>, <<549999, 1000000>>}

applyRecommendation(score) ==
  /\ probe' = [kind |-> "recommendation", score |-> score,
               level |-> recommendationFromScore([score |-> score])]
  /\ UNCHANGED <<plan, appState, customTargets, logs, draft, storage, today, nextId, ops>>

NextRecommend == \E score \in ScoreInputs : applyRecommendation(score)

SpecRecommend == Init /\ [][NextRecommend]_vars

\* ------------------------------------ scoreSession and suggestReduction alone

\* the largest target (sets, reps) enumerated, and the largest result
MaxTarget == 2
MaxDone == 3

\* the item under test, at 0-based index 1 of its list: a repetition item, a
\* duration item in seconds, a duration item in minutes
ProbeKinds == {<<"reps", "reps">>, <<"time", "s">>, <<"time", "min">>}
ProbeItem(kind) == Measured(kind[1], "inclinePushUp", 3, 10, kind[2])
OtherItem == Measured("time", "plank", 2, 30, "s")

ProbeLists(kind) ==
  { <<Block("warmup"), Block("cooldown")>>,
    <<Block("warmup"), ProbeItem(kind), Block("cooldown")>>,
    <<Block("warmup"), ProbeItem(kind), OtherItem, Block("cooldown")>> }

\* targets: the small grid, and 3x10 and 3x20
TargetInputs ==
  {[sets |-> s, reps |-> r] : s \in 1..MaxTarget, r \in 1..MaxTarget}
    \cup {[sets |-> 3, reps |-> 10], [sets |-> 3, reps |-> 20]}

\* targetsByItemId: no entry for the item (its own sets and reps apply) or an entry
ProbeTargets(kind) ==
  {EmptyMap} \cup {Put(EmptyMap, itemKeyOf(ProbeItem(kind), 1), t) : t \in TargetInputs}

\* what the result steppers can leave under a key: both fields, one field,
\* and the record that meets 3x10 and 3x20
RecordInputs ==
  {[setsDone |-> s, repsDone |-> r] : s \in 0..MaxDone, r \in 0..MaxDone}
    \cup {[setsDone |-> s] : s \in 0..MaxDone}
    \cup {[repsDone |-> r] : r \in 0..MaxDone}
    \cup {[setsDone |-> 3, repsDone |-> 20], [setsDone |-> 3, repsDone |-> 9]}

\* actualByItemId: nothing logged, the item under test logged, and the other
\* item logged as met or half met
ProbeActuals(kind) ==
  LET k1 == itemKeyOf(ProbeItem(kind), 1)
      k2 == itemKeyOf(OtherItem, 2)
      first == {EmptyMap} \cup {Put(EmptyMap, k1, a) : a \in RecordInputs}
  IN  first \cup {Put(f, k2, b) : f \in {EmptyMap, Put(EmptyMap, k1, [setsDone |-> 1, repsDone |-> 1])},
                                  b \in {[setsDone |-> 2, repsDone |-> 30], [setsDone |-> 1, repsDone |-> 30]}}

\* the values of the RPE range input
RpeRange == 5..10

\* a function is applied once, to inputs drawn when it is called
UnchangedApp ==
  UNCHANGED <<plan, appState, customTargets, logs, draft, storage, today, nextId, ops>>

applyScoreSession(items, actuals, targets, rpe) ==
  /\ probe = NoProbe
  /\ probe' = [kind |-> "score", items |-> items, actualByItemId |-> actuals,
               targetsByItemId |-> targets, rpe |-> rpe,
               result |-> scoreSession(items, actuals, targets, rpe)]
  /\ UnchangedApp

applySuggestReduction(items, actuals, targets) ==
  /\ probe = NoProbe
  /\ probe' = [kind |-> "reduction", items |-> items, actualByItemId |-> actuals,
               targetsByItemId |-> targets,
               result |-> suggestReduction(items, actuals, targets)]
  /\ UnchangedApp

NextScoring ==
  \/ \E items \in ProbeLists(<<"reps", "reps">>), a \in ProbeActuals(<<"reps", "reps">>),
        t \in ProbeTargets(<<"reps", "reps">>), rpe \in RpeRange :
       applyScoreSession(items, a, t, rpe)
  \/ \E kind \in ProbeKinds :
       \E items \in ProbeLists(kind), a \in ProbeActuals(kind), t \in ProbeTargets(kind) :
         applySuggestReduction(items, a, t)

\* the function specifications start from the App of an empty localStorage
InitPure == Init /\ appState = DefaultAppState

SpecScoring == InitPure /\ [][NextScoring]_vars

\* ------------------------------------------------- the plan generator alone

\* the largest base repetitions and the largest base seconds tried
MaxBaseReps == 12
MaxBaseSeconds == 30

applyBuildWeekPlan(week) ==
  /\ probe = NoProbe
  /\ probe' = [kind |-> "weekPlan", week |-> week, result |-> buildWeekPlan(week)]
  /\ UnchangedApp

applyRepsForWeek(week, baseReps) ==
  /\ probe = NoProbe
  /\ probe' = [kind |-> "reps", week |-> week, base |-> baseReps,
               result |-> repsForWeek(week, baseReps)]
  /\ UnchangedApp

applySecondsForWeek(week, baseSeconds) ==
  /\ probe = NoProbe
  /\ probe' = [kind |-> "seconds", week |-> week, base |-> baseSeconds,
               result |-> secondsForWeek(week, baseSeconds)]
  /\ UnchangedApp

NextPlan ==
  \/ \E week \in Weeks : applyBuildWeekPlan(week)
  \/ \E week \in Weeks, baseReps \in 1..MaxBaseReps : applyRepsForWeek(week, baseReps)
  \/ \E week \in Weeks, baseSeconds \in 1..MaxBaseSeconds : applySecondsForWeek(week, baseSeconds)

SpecPlan == InitPure /\ [][NextPlan]_vars

\* ------------------------------------- a storage that rejects, or loses, text

StorageKeys == {LS_KEYS.state, LS_KEYS.targets, LS_KEYS.logs}

\* localStorage.setItem(key, text): the text is stored, or the call throws
\* (quota exceeded, access denied, no storage) and nothing is stored
setItem(st, key, text, accepted) ==
  IF accepted THEN [threw |-> FALSE, storage |-> [st EXCEPT ![key] = text]]
  ELSE [threw |-> TRUE, storage |-> st]

\* mutant: saveLS without its try/catch
saveLSUncaught(st, key, value, accepted) == setItem(st, key, Json(value), accepted)

\* saveLS on such a storage: try { setItem } catch { }
saveLSOn(st, key, value, accepted) ==
  [threw |-> FALSE, storage |-> setItem(st, key, Json(value), accepted).storage]

\* the three persistence effects on a storage that accepts the keys of accepts
PersistOn(st, a, t, l, accepts) ==
  LET r1 == saveLSOn(st, LS_KEYS.state, a, LS_KEYS.state \in accepts)
      r2 == saveLSOn(r1.storage, LS_KEYS.targets, t, LS_KEYS.targets \in accepts)
      r3 == saveLSOn(r2.storage, LS_KEYS.logs, l, LS_KEYS.logs \in accepts)
  IN  [threw |-> r1.threw \/ r2.threw \/ r3.threw, storage |-> r3.storage]

\* the first n of the three persistence effects, in the order of their
\* declaration: the process ends before the others run
PersistUpTo(st, a, t, l, n) ==
  LET s1 == IF n >= 1 THEN saveLS(st, LS_KEYS.state, a) ELSE st
      s2 == IF n >= 2 THEN saveLS(s1, LS_KEYS.targets, t) ELSE s1
  IN  IF n >= 3 THEN saveLS(s2, LS_KEYS.logs, l) ELSE s2

Running == probe.kind # "crashed"

\* saveSession, its effects meeting a storage that accepts only some keys
saveSessionRejecting(accepts) ==
  LET id == nextId
      a == progress(appState, rec)
      ct == targetsAfterSave(customTargets, appState, rec, reduceSuggestions)
      l == prependLog(logs, id, payloadOf(id))
      r == PersistOn(storage, a, ct, l, accepts)
  IN  /\ Running
      /\ nextId < MaxLogs
      /\ nextId' = nextId + 1
      /\ customTargets' = ct
      /\ logs' = l
      /\ appState' = a
      /\ draft' = draftEffect(appState, a, DefaultDraft(today))
      /\ storage' = r.storage
      /\ probe' = [kind |-> "effects", threw |-> r.threw, accepts |-> accepts]
      /\ UNCHANGED <<plan, today, ops>>

\* saveSession, the process ending after n of the effects of its render
saveSessionCrashing(n) ==
  LET id == nextId
      a == progress(appState, rec)
      ct == targetsAfterSave(customTargets, appState, rec, reduceSuggestions)
      l == prependLog(logs, id, payloadOf(id))
  IN  /\ Running
      /\ nextId < MaxLogs
      /\ nextId' = nextId + 1
      /\ customTargets' = ct
      /\ logs' = l
      /\ appState' = a
      /\ draft' = draftEffect(appState, a, DefaultDraft(today))
      /\ storage' = PersistUpTo(storage, a, ct, l, n)
      /\ probe' = [kind |-> "crashed", before |-> storage, written |-> n]
      /\ UNCHANGED <<plan, today, ops>>

\* resetAll confirmed, the process ending after n of the effects of its render
resetAllCrashing(n) ==
  LET cleared == removeItem(removeItem(removeItem(storage, LS_KEYS.state),
                                       LS_KEYS.targets), LS_KEYS.logs)
  IN  /\ Running
      /\ appState' = DefaultAppState
      /\ customTargets' = EmptyMap
      /\ logs' = DefaultLogs
      /\ draft' = DefaultDraft(today)
      /\ storage' = PersistUpTo(cleared, DefaultAppState, EmptyMap, DefaultLogs, n)
      /\ probe' = [kind |-> "crashed", before |-> cleared, written |-> n]
      /\ UNCHANGED <<plan, today, nextId, ops>>

\* the page is opened again after the process ended
reopen ==
  /\ ~Running
  /\ appState' = Mount(storage).appState
  /\ customTargets' = Mount(storage).customTargets
  /\ logs' = Mount(storage).logs
  /\ storage' = Mount(storage).storage
  /\ draft' = DefaultDraft(today)
  /\ probe' = NoProbe
  /\ UNCHANGED <<plan, today, nextId, ops>>

\* the page is opened again after the record under key was removed (raw is
\* Absent) or overwritten by text JSON.parse rejects (raw is Garbage)
reloadDamaged(key, raw) ==
  LET st == [storage EXCEPT ![key] = raw]
  IN  /\ appState' = Mount(st).appState
      /\ customTargets' = Mount(st).customTargets
      /\ logs' = Mount(st).logs
      /\ storage' = Mount(st).storage
      /\ draft' = DefaultDraft(today)
      /\ probe' = [kind |-> "damaged", key |-> key, raw |-> raw, before |-> storage]
      /\ UNCHANGED <<plan, today, nextId, ops>>

NextStorage ==
  \/ \E accepts \in SUBSET StorageKeys : saveSessionRejecting(accepts)
  \/ \E n \in 0..2 : saveSessionCrashing(n)
  \/ \E n \in 0..2 : resetAllCrashing(n)
  \/ reopen
  \/ \E key \in StorageKeys, raw \in {Absent, Garbage} : reloadDamaged(key, raw)

SpecStorage == Init /\ [][NextStorage]_vars

\* ------------------------------------------- saves of an untouched session

MaxReduceSaves == 20

\* the App at any session of the plan, automatic progression on, nothing
\* logged and no custom target stored
InitReduce ==
  /\ plan = getPlan20Weeks
  /\ \E w \in Weeks, d \in DayIds :
       LET a == [week |-> w, dayId |-> d, smartProgression |-> TRUE]
       IN  /\ appState = a
           /\ storage = Persist(EmptyStorage, a, EmptyMap, DefaultLogs)
  /\ customTargets = EmptyMap
  /\ logs = DefaultLogs
  /\ draft = DefaultDraft(0)
  /\ today = 0
  /\ nextId = 0
  /\ ops = 0
  /\ probe = NoProbe

\* saveSession, pressed up to MaxReduceSaves times
saveSessionRepeated ==
  LET id == nextId
      a == progress(appState, rec)
      ct == targetsAfterSave(customTargets, appState, rec, reduceSuggestions)
      l == prependLog(logs, id, payloadOf(id))
  IN  /\ nextId < MaxReduceSaves
      /\ nextId' = nextId + 1
      /\ customTargets' = ct
      /\ logs' = l
      /\ appState' = a
      /\ draft' = draftEffect(appState, a, DefaultDraft(today))
      /\ storage' = Persist(storage, a, ct, l)
      /\ UNCHANGED today
      /\ NoBudget

NextReduce == saveSessionRepeated

SpecReduce == InitReduce /\ [][NextReduce]_vars

\* ------------------------------------------------------------------- claims

\* a step of saveSession: the only handler that calls uid()
IsSave == nextId' = nextId + 1

HasLog == Len(logs.order) > 0
HeadLog == logs.byId[Head(logs.order)]

NextLetter(dayId) ==
  CASE dayId = "A" -> "B" [] dayId = "B" -> "C" [] dayId = "C" -> "D" [] OTHER -> "none"

\* C1: with automatic progression on, a save recommended advance moves to the
\* next day letter of the same week from A, B, C, and from D to day A of week
\* min(week + 1, 20): week 5 day D becomes week 6 day A, week 20 day D
\* becomes week 20 day A.
C1_AdvanceMovesPointer ==
  [][ (IsSave /\ appState.smartProgression /\ rec = "advance") =>
        IF appState.dayId = "D"
        THEN /\ appState'.dayId = "A"
             /\ appState'.week = (IF appState.week + 1 <= 20 THEN appState.week + 1 ELSE 20)
        ELSE /\ appState'.dayId = NextLetter(appState.dayId)
             /\ appState'.week = appState.week ]_vars

C1_Witness ==
  /\ HasLog
  /\ HeadLog.week = 5 /\ HeadLog.dayId = "D" /\ HeadLog.recommendation = "advance"
  /\ appState.week = 6 /\ appState.dayId = "A" /\ appState.smartProgression

\* C2: with automatic progression on, a save recommended hold moves to the
\* next day letter, from D to day A, and never changes the week.
C2_HoldKeepsWeek ==
  [][ (IsSave /\ appState.smartProgression /\ rec = "hold") =>
        /\ appState'.week = appState.week
        /\ appState'.dayId = (IF appState.dayId = "D" THEN "A" ELSE NextLetter(appState.dayId)) ]_vars

C2_Witness ==
  /\ HasLog
  /\ HeadLog.week = 5 /\ HeadLog.dayId = "D" /\ HeadLog.recommendation = "hold"
  /\ appState.week = 5 /\ appState.dayId = "A" /\ appState.smartProgression

\* C3: a save recommended reduce leaves (week, day) as it was, with automatic
\* progression on or off.
C3_ReduceKeepsPointer ==
  [][ (IsSave /\ rec = "reduce") =>
        /\ appState'.week = appState.week
        /\ appState'.dayId = appState.dayId ]_vars

C3_Witness ==
  /\ HasLog
  /\ HeadLog.recommendation = "reduce"
  /\ appState.smartProgression
  /\ appState.week = HeadLog.week /\ appState.dayId = HeadLog.dayId
  /\ HeadLog.actualByItemId # EmptyMap

C5_ToggleOffSaveChangesNothing ==
  [][ (IsSave /\ ~appState.smartProgression) =>
        /\ appState' = appState
        /\ customTargets' = customTargets ]_vars

C5_Witness ==
  /\ Len(logs.order) = 2
  /\ ~appState.smartProgression
  /\ logs.byId[logs.order[1]].recommendation = "reduce"
  /\ logs.byId[logs.order[2]].recommendation \in {"advance", "hold"}
  /\ \A i \in 1..2 : /\ logs.byId[logs.order[i]].week = appState.week
                     /\ logs.byId[logs.order[i]].dayId = appState.dayId
  /\ customTargets = EmptyMap

\* C6: every save puts exactly one new log at the head of the list, holding
\* the week, day, effort, score, compliance, recommendation and actuals of the
\* saving state (the recommendation being the level of the stored score), and
\* resets the draft to no actuals, effort 7 and today's date.
C6_SaveLogsAndResetsDraft ==
  [][ IsSave =>
        /\ Len(logs'.order) = Len(logs.order) + 1
        /\ Tail(logs'.order) = logs.order
        /\ Head(logs'.order) \notin DOMAIN logs.byId
        /\ LET L == logs'.byId[Head(logs'.order)]
           IN  /\ L.week = appState.week
               /\ L.dayId = appState.dayId
               /\ L.rpe = draft.rpe
               /\ L.score = scoreObj.score
               /\ L.pct = scoreObj.pct
               /\ L.recommendation = rec
               /\ L.recommendation =
                    (IF 5 * L.score[1] >= 4 * L.score[2] THEN "advance"
                     ELSE IF 20 * L.score[1] >= 11 * L.score[2] THEN "hold"
                     ELSE "reduce")
               /\ L.actualByItemId = draft.actualByItemId
        /\ draft'.actualByItemId = EmptyMap
        /\ draft'.rpe = 7
        /\ draft'.date = today ]_vars

\* two saves: a logged session with a changed effort, then an empty draft
C6_Witness ==
  /\ Len(logs.order) = 2
  /\ logs.byId[logs.order[2]].rpe # 7
  /\ logs.byId[logs.order[2]].actualByItemId # EmptyMap
  /\ HeadLog.rpe = 7
  /\ HeadLog.actualByItemId = EmptyMap
  /\ HeadLog.recommendation = "reduce"
  /\ draft = [actualByItemId |-> EmptyMap, rpe |-> 7, completed |-> FALSE, date |-> today]

\* a confirmed full reset, as a step
IsReset ==
  /\ appState' = DefaultAppState
  /\ customTargets' = EmptyMap
  /\ logs' = DefaultLogs
  /\ nextId' = nextId

\* C7: without a full reset every saved log stays, unchanged, the earlier
\* logs keep their order behind the newer ones, and every id of the order
\* list resolves in the by-id mapping.
C7_LogsAppendOnly ==
  /\ [](\A i \in 1..Len(logs.order) : logs.order[i] \in DOMAIN logs.byId)
  /\ [][ IsReset \/
         /\ \A id \in DOMAIN logs.byId :
              id \in DOMAIN logs'.byId /\ logs'.byId[id] = logs.byId[id]
         /\ Len(logs'.order) >= Len(logs.order)
         /\ SubSeq(logs'.order, Len(logs'.order) - Len(logs.order) + 1, Len(logs'.order))
              = logs.order ]_vars

\* two logs, and a draft edited after the second save
C7_Witness ==
  /\ Len(logs.order) = 2
  /\ logs.order = <<1, 0>>
  /\ draft.actualByItemId # EmptyMap

\* C8: the week is always in 1..20 and the day one of A, B, C, D.
C8_PointerInRange ==
  /\ appState.week \in 1..20
  /\ appState.dayId \in {"A", "B", "C", "D"}

\* an advance saved at week 20 day D has been clamped to week 20
C8_Witness ==
  /\ HasLog
  /\ HeadLog.week = 20 /\ HeadLog.dayId = "D" /\ HeadLog.recommendation = "advance"
  /\ appState.week = 20 /\ appState.dayId = "A"

PlanTargetsPositive ==
  \A w \in Weeks : \A i \in 1..4 :
    LET items == plan[w].sessions[i].items
    IN  \A j \in MeasuredIdx(items) : items[j + 1].sets >= 1 /\ items[j + 1].reps >= 1

\* C9: every plan target and every custom target has sets >= 1 and
\* reps/duration >= 1.
C9_TargetsAtLeastOne ==
  /\ PlanTargetsPositive
  /\ \A q \in DOMAIN customTargets : customTargets[q].sets >= 1 /\ customTargets[q].reps >= 1

\* a reduce-save has eased a 1x2 target to 1x1, the floor
C9_Witness ==
  /\ nextId >= 1
  /\ \E q \in DOMAIN customTargets : customTargets[q] = [sets |-> 1, reps |-> 1]

\* C10: advance for score >= 0.80, hold for 0.55 <= score < 0.80, reduce
\* below 0.55.
C10_RecommendationThresholds ==
  probe.kind = "recommendation" =>
    LET n == probe.score[1]
        d == probe.score[2]
    IN  /\ (100 * n >= 80 * d) => probe.level = "advance"
        /\ (100 * n >= 55 * d /\ 100 * n < 80 * d) => probe.level = "hold"
        /\ (100 * n < 55 * d) => probe.level = "reduce"

\* the boundary 0.80 itself
C10_Witness ==
  /\ probe.kind = "recommendation"
  /\ probe.score = <<4, 5>>
  /\ probe.level = "advance"

\* ---- scoreSession

\* the sum of f over a finite set of indices
RECURSIVE RatSum(_, _)
RatSum(S, f) ==
  IF S = {} THEN Zero
  ELSE LET i == CHOOSE x \in S : TRUE IN RatAdd(f[i], RatSum(S \ {i}, f))

\* the value reported under a key, 0 when the record or the field is missing
Reported(actuals, key, field) ==
  IF key \in DOMAIN actuals
  THEN (IF field \in DOMAIN actuals[key] THEN actuals[key][field] ELSE 0)
  ELSE 0

\* done/target cut to [0, 1], for done >= 0 and target >= 1
CutRatio(done, target) == IF done >= target THEN One ELSE Rat(done, target)

\* C11: compliance is the mean, over the non-block items only, of the average
\* of the two ratios cut to [0, 1], missing results counting as 0, and 0
\* when no item is measured; score is compliance minus the penalty (0.20 for
\* effort >= 9, 0.10 for effort 8, else 0) cut to [0, 1].
C11_ScoreSessionFormula ==
  probe.kind = "score" =>
    LET items == probe.items
        measured == {i \in 1..Len(items) : items[i].type # "block"}
        keyAt(i) == <<items[i].exerciseId, ":">> \o Digits(i - 1)
        targetAt(i) == IF keyAt(i) \in DOMAIN probe.targetsByItemId
                       THEN probe.targetsByItemId[keyAt(i)]
                       ELSE [sets |-> items[i].sets, reps |-> items[i].reps]
        part == [i \in measured |->
                   RatMul(Half,
                          RatAdd(CutRatio(Reported(probe.actualByItemId, keyAt(i), "setsDone"),
                                          targetAt(i).sets),
                                 CutRatio(Reported(probe.actualByItemId, keyAt(i), "repsDone"),
                                          targetAt(i).reps)))]
        mean == IF measured = {} THEN Zero
                ELSE RatMul(RatSum(measured, part), <<1, Cardinality(measured)>>)
        penalty == IF probe.rpe >= 9 THEN <<1, 5>>
                   ELSE IF probe.rpe = 8 THEN <<1, 10>> ELSE Zero
        raw == RatSub(mean, penalty)
    IN  /\ probe.result.pct = mean
        /\ probe.result.score = (IF raw[1] < 0 THEN Zero ELSE IF raw[1] > raw[2] THEN One ELSE raw)

\* two measured items between the blocks, the first one with no result, the
\* other met, effort 9: compliance 1/2, score 1/2 - 1/5
C11_Witness ==
  /\ probe.kind = "score"
  /\ Len(probe.items) = 4
  /\ probe.rpe = 9
  /\ DOMAIN probe.actualByItemId = {itemKeyOf(OtherItem, 2)}
  /\ probe.result.pct = <<1, 2>>
  /\ probe.result.score = <<3, 10>>

\* ---- suggestReduction

\* the item list, the measured positions and the keys of a reduction probe
RItems == probe.items
RMeasured == {i \in 1..Len(RItems) : RItems[i].type # "block"}
RKey(i) == <<RItems[i].exerciseId, ":">> \o Digits(i - 1)
RTarget(i) ==
  IF RKey(i) \in DOMAIN probe.targetsByItemId THEN probe.targetsByItemId[RKey(i)]
  ELSE [sets |-> RItems[i].sets, reps |-> RItems[i].reps]
RNoRecord(i) == RKey(i) \notin DOMAIN probe.actualByItemId
RShortSets(i) == RNoRecord(i) \/ Reported(probe.actualByItemId, RKey(i), "setsDone") < RTarget(i).sets
RShortReps(i) == RNoRecord(i) \/ Reported(probe.actualByItemId, RKey(i), "repsDone") < RTarget(i).reps
\* d: 1 for minutes, 5 for any other duration, 2 for repetitions
RStep(i) ==
  CASE RItems[i].type = "time" /\ RItems[i].unit = "min" -> 1
    [] RItems[i].type = "time" /\ RItems[i].unit # "min" -> 5
    [] OTHER -> 2
RNewSets(i) == IF RShortSets(i) THEN Max(1, RTarget(i).sets - 1) ELSE RTarget(i).sets
RNewReps(i) == IF RShortReps(i) THEN Max(1, RTarget(i).reps - RStep(i)) ELSE RTarget(i).reps
\* the positions of the list, in order
RPositions == [i \in 1..Len(RItems) |-> i]
RProposedKeys == [n \in 1..Len(probe.result) |-> probe.result[n].itemKey]

\* C12: a proposal carries newSets = max(1, targetSets - 1) when there is no
\* record or sets fell short (else the sets stay) and max(1, target - d) when
\* there is no record or reps/duration fell short (else the target stays), d
\* being 1 for minutes, 5 for other durations, 2 for repetitions; and every
\* measured item for which these differ from its target gets that proposal.
C12_ReductionValues ==
  probe.kind = "reduction" =>
    /\ \A n \in 1..Len(probe.result) :
         \E i \in RMeasured :
           /\ probe.result[n].itemKey = RKey(i)
           /\ probe.result[n].from.sets = RTarget(i).sets
           /\ probe.result[n].from.reps = RTarget(i).reps
           /\ probe.result[n].to.sets = RNewSets(i)
           /\ probe.result[n].to.reps = RNewReps(i)
    /\ \A i \in RMeasured :
         (RNewSets(i) # RTarget(i).sets \/ RNewReps(i) # RTarget(i).reps) =>
           \E n \in 1..Len(probe.result) : probe.result[n].itemKey = RKey(i)

\* an unattempted 3x20 duration item in seconds is proposed 2x15
C12_Witness ==
  /\ probe.kind = "reduction"
  /\ Len(probe.items) = 3
  /\ probe.items[2].type = "time" /\ probe.items[2].unit = "s"
  /\ probe.actualByItemId = EmptyMap
  /\ RTarget(2) = [sets |-> 3, reps |-> 20]
  /\ Len(probe.result) = 1
  /\ probe.result[1].to.sets = 2 /\ probe.result[1].to.reps = 15

\* a measured item under-performed: no record, or sets or reps below target
RUnderPerformed(i) == i \in RMeasured /\ (RShortSets(i) \/ RShortReps(i))
\* a measured item whose proposal would differ from its target
RChanges(i) ==
  /\ i \in RMeasured
  /\ \/ RShortSets(i) /\ RTarget(i).sets > 1
     \/ RShortReps(i) /\ RTarget(i).reps > 1

\* C13 as stated: exactly one proposal, in item order, for each measured item
\* that under-performed, none for a block or an item that met both targets.
C13_OnePerUnderPerformed ==
  probe.kind = "reduction" => RProposedKeys = [n \in 1..Len(SelectSeq(RPositions, RUnderPerformed)) |->
                                                 RKey(SelectSeq(RPositions, RUnderPerformed)[n])]

\* C13 amended: exactly one proposal, in item order, for each measured item
\* that under-performed in a dimension whose target is above 1 (sets short
\* with target sets > 1, or reps/duration short with target > 1); none for a
\* block, for an item that met both targets, or for an item that fell short
\* only where the target is already 1.
C13_OnePerReducibleItem ==
  probe.kind = "reduction" => RProposedKeys = [n \in 1..Len(SelectSeq(RPositions, RChanges)) |->
                                                 RKey(SelectSeq(RPositions, RChanges)[n])]

\* the first item, at 1x1 and with no record, gets no proposal; the second,
\* one set short, gets the only one
C13_Witness ==
  /\ probe.kind = "reduction"
  /\ Len(probe.items) = 4
  /\ RTarget(2) = [sets |-> 1, reps |-> 1]
  /\ RNoRecord(2)
  /\ Len(probe.result) = 1
  /\ probe.result[1].itemKey = RKey(3)

\* ---- effective targets

\* the generated session of the current week and day
PlanSession ==
  LET ss == plan[appState.week].sessions
  IN  ss[CHOOSE n \in 1..Len(ss) : ss[n].id = appState.dayId]

\* for the item at position i of the item list of the current session: its
\* key, its path, and the stored custom target when there is one, else the
\* plan's default
EKey(items, i) == <<items[i].exerciseId, ":">> \o Digits(i - 1)
EPath(items, i) == Digits(appState.week) \o <<"-", appState.dayId, "-">> \o EKey(items, i)
PlanDefault(items, i) == [sets |-> items[i].sets, reps |-> items[i].reps]
Effective(items, i) ==
  IF EPath(items, i) \in DOMAIN customTargets THEN customTargets[EPath(items, i)]
  ELSE PlanDefault(items, i)
EMeasured(items) == {i \in 1..Len(items) : items[i].type # "block"}
EffectiveMap(items) ==
  [k \in {EKey(items, i) : i \in EMeasured(items)} |->
     Effective(items, CHOOSE i \in EMeasured(items) : EKey(items, i) = k)]

\* C14: the target shown, scored and reduced for an item of the current
\* session is the custom target stored under the path of (current week,
\* current day, item key) when there is one, else the plan default of the
\* current week.
C14_EffectiveTargets ==
  LET items == PlanSession.items
      effective == EffectiveMap(items)
  IN  /\ targetsByItemId = effective
      /\ \A i \in EMeasured(items) :
           LET shown == getCustomTargetForItem(appState, customTargets, items[i], i - 1)
           IN  (IF shown # <<>> THEN shown[1] ELSE PlanDefault(items, i)) = effective[EKey(items, i)]
      /\ scoreObj = scoreSession(items, draft.actualByItemId, effective, draft.rpe)
      /\ rec = "reduce" =>
           reduceSuggestions = suggestReduction(items, draft.actualByItemId, effective)

\* a save has moved the pointer from week 5 day D, which has a stored
\* override, to week 6 day A, which has none: the plan defaults apply
C14_Witness ==
  LET items == PlanSession.items
  IN  /\ nextId = 1
      /\ appState.week = 6 /\ appState.dayId = "A"
      /\ \E q \in DOMAIN customTargets : startsWith(q, <<"5", "-", "D", "-">>)
      /\ \A i \in EMeasured(items) :
           /\ EPath(items, i) \notin DOMAIN customTargets
           /\ targetsByItemId[EKey(items, i)] = PlanDefault(items, i)

\* ---- the plan generator

\* floor((w - 1) / 2) for w >= 1: the number of completed two-week steps
Steps(w) == CHOOSE k \in 0..w : 2 * k <= w - 1 /\ w - 1 < 2 * (k + 1)
Deload(w) == w \in {8, 16}

\* C15: base sets are 2 in weeks 1..4, 3 in weeks 5..7 and 9..12, 4 in weeks
\* 13..15 and 17..20, and on the deload weeks one less than the value of
\* their range, floored at 2: 2 in week 8, 3 in week 16.
C15_BaseSets ==
  probe.kind = "weekPlan" =>
    LET w == probe.week
        ranged == IF w \in 1..4 THEN 2 ELSE IF w \in 5..12 THEN 3 ELSE 4
    IN  /\ (w \in 1..4) => probe.result.sets = 2
        /\ (w \in (5..7) \cup (9..12)) => probe.result.sets = 3
        /\ (w \in (13..15) \cup (17..20)) => probe.result.sets = 4
        /\ (w = 8) => probe.result.sets = 2
        /\ (w = 16) => probe.result.sets = 3
        /\ Deload(w) => probe.result.sets = (IF ranged - 1 < 2 THEN 2 ELSE ranged - 1)

\* the plan of deload week 16 has 3 base sets
C15_Witness ==
  /\ probe.kind = "weekPlan"
  /\ probe.week = 16
  /\ probe.result.sets = 3

\* C16: repsForWeek(w, b) is b + floor((w-1)/2), and on the deload weeks
\* that value minus 2, floored at 4; repsForWeek(1,6) = 6, (8,6) = 7,
\* (20,6) = 15.
C16_RepsForWeek ==
  probe.kind = "reps" =>
    LET grown == probe.base + Steps(probe.week)
    IN  /\ ~Deload(probe.week) => probe.result = grown
        /\ Deload(probe.week) => probe.result = (IF grown - 2 < 4 THEN 4 ELSE grown - 2)
        /\ (probe.week = 1 /\ probe.base = 6) => probe.result = 6
        /\ (probe.week = 8 /\ probe.base = 6) => probe.result = 7
        /\ (probe.week = 20 /\ probe.base = 6) => probe.result = 15

\* deload week 8 with a base of 1: the floor of 4 applies
C16_Witness ==
  /\ probe.kind = "reps"
  /\ probe.week = 8 /\ probe.base = 1
  /\ probe.result = 4

\* the light-cardio items of a generated week
MarchItems(weekPlan) ==
  {weekPlan.sessions[n].items[i] :
     <<n, i>> \in {x \in (1..4) \X (1..7) :
                     /\ x[2] <= Len(weekPlan.sessions[x[1]].items)
                     /\ weekPlan.sessions[x[1]].items[x[2]].exerciseId = "marchInPlace"}}

\* C17: the seconds target for base d is d + 5*floor((w-1)/2), on a deload
\* week max(10, that - 10); the light-cardio target in minutes is
\* clamp(8 + floor((w-1)/2), 8, 20), on a deload week max(6, that - 4).
C17_Durations ==
  /\ probe.kind = "seconds" =>
       LET grown == probe.base + 5 * Steps(probe.week)
       IN  probe.result = (IF Deload(probe.week)
                           THEN (IF grown - 10 < 10 THEN 10 ELSE grown - 10) ELSE grown)
  /\ probe.kind = "weekPlan" =>
       LET raw == 8 + Steps(probe.week)
           minutes == IF raw < 8 THEN 8 ELSE IF raw > 20 THEN 20 ELSE raw
           expected == IF Deload(probe.week)
                       THEN (IF minutes - 4 < 6 THEN 6 ELSE minutes - 4) ELSE minutes
       IN  /\ MarchItems(probe.result) # {}
           /\ \A it \in MarchItems(probe.result) :
                it.type = "time" /\ it.unit = "min" /\ it.reps = expected

\* deload week 16 with a base of 20 seconds: 20 + 35 - 10
C17_Witness ==
  /\ probe.kind = "seconds"
  /\ probe.week = 16 /\ probe.base = 20
  /\ probe.result = 45

\* C18: each of the four sessions of every week starts with the warm-up
\* block, ends with the cool-down block, and has no other block item.
C18_BlocksFirstAndLast ==
  probe.kind = "weekPlan" =>
    /\ Len(probe.result.sessions) = 4
    /\ \A n \in 1..4 :
         LET items == probe.result.sessions[n].items
         IN  /\ probe.result.sessions[n].id = DAYS[n]
             /\ Len(items) >= 2
             /\ items[1].type = "block" /\ items[1].exerciseId = "warmup"
             /\ items[Len(items)].type = "block" /\ items[Len(items)].exerciseId = "cooldown"
             /\ \A i \in 2..(Len(items) - 1) : items[i].type # "block"

\* the plan of week 20: session D has five measured items between its blocks
C18_Witness ==
  /\ probe.kind = "weekPlan"
  /\ probe.week = 20
  /\ Len(probe.result.sessions[4].items) = 7
  /\ probe.result.sessions[4].items[7].exerciseId = "cooldown"

\* the measured items of session n of the generated week
MeasuredOf(weekPlan, n) ==
  {weekPlan.sessions[n].items[i] :
     i \in {j \in 1..Len(weekPlan.sessions[n].items) :
              weekPlan.sessions[n].items[j].type # "block"}}

\* C19: every measured item of session C has max(2, base sets - 1) sets,
\* never above the base sets, and a target strictly below the target of the
\* same exercise in session A or B of that week.
C19_SessionCLighter ==
  probe.kind = "weekPlan" =>
    LET base == probe.result.sets
        inAB == MeasuredOf(probe.result, 1) \cup MeasuredOf(probe.result, 2)
    IN  /\ MeasuredOf(probe.result, 3) # {}
        /\ \A c \in MeasuredOf(probe.result, 3) :
             /\ c.sets = (IF base - 1 < 2 THEN 2 ELSE base - 1)
             /\ c.sets <= base
             /\ \E x \in inAB : x.exerciseId = c.exerciseId
             /\ \A x \in inAB : x.exerciseId = c.exerciseId => c.reps < x.reps

\* week 1: 2 base sets, session C keeps 2 sets and asks 5 incline push-ups
\* where session A asks 6
C19_Witness ==
  /\ probe.kind = "weekPlan"
  /\ probe.week = 1
  /\ probe.result.sets = 2
  /\ \E c \in MeasuredOf(probe.result, 3) :
       c.exerciseId = "inclinePushUp" /\ c.sets = 2 /\ c.reps = 5
  /\ \E x \in MeasuredOf(probe.result, 1) : x.exerciseId = "inclinePushUp" /\ x.reps = 6

\* ---- full reset

\* C20: a confirmed full reset leaves week 1, day A, automatic progression
\* on, no custom targets, no logs and an empty draft, from any state; a
\* declined one changes nothing: pointer, toggle, targets, logs, draft and
\* stored records.
C20_ResetAll ==
  [][ /\ resetAll(TRUE) =>
           /\ appState'.week = 1 /\ appState'.dayId = "A" /\ appState'.smartProgression
           /\ DOMAIN customTargets' = {}
           /\ logs'.order = <<>> /\ DOMAIN logs'.byId = {}
           /\ DOMAIN draft'.actualByItemId = {}
           /\ draft'.rpe = 7 /\ ~draft'.completed /\ draft'.date = today
      /\ resetAll(FALSE) =>
           /\ appState' = appState
           /\ customTargets' = customTargets
           /\ logs' = logs
           /\ draft' = draft
           /\ storage' = storage ]_vars

\* a session was saved and a confirmed reset has since cleared its log: an
\* id was handed out, and nothing is left
C20_Witness ==
  /\ nextId >= 1
  /\ appState = [week |-> 1, dayId |-> "A", smartProgression |-> TRUE]
  /\ customTargets = EmptyMap
  /\ logs = [order |-> <<>>, byId |-> EmptyMap]
  /\ draft.actualByItemId = EmptyMap

\* ---- persistence

\* the value the App holds in memory for the record under key k
InMemory(k) ==
  IF k = LS_KEYS.state THEN appState
  ELSE IF k = LS_KEYS.targets THEN customTargets
  ELSE logs

\* the same after the step
InMemoryAfter(k) ==
  IF k = LS_KEYS.state THEN appState'
  ELSE IF k = LS_KEYS.targets THEN customTargets'
  ELSE logs'

\* the fallback the App passes to loadLS for the record under key k
Fallback(k) ==
  IF k = LS_KEYS.state THEN DefaultAppState
  ELSE IF k = LS_KEYS.targets THEN EmptyMap
  ELSE DefaultLogs

\* a step of saveSessionRejecting(probe'.accepts): the only action that records
\* what its effects raised
IsRejectedSave == probe'.kind = "effects" /\ nextId' = nextId + 1

\* a step of reloadDamaged(probe'.key, probe'.raw): the only action that records
\* a damaged record
IsDamagedReload == probe'.kind = "damaged"

\* C21: loading a record that is absent or does not deserialize yields the
\* fallback supplied for it, and a save whose writes the storage rejects
\* raises nothing, leaves the rejected records as they were, and leaves the
\* save's result in memory exactly what it is when every write succeeds.
C21_LoadAndSaveNeverFail ==
  [][ /\ IsRejectedSave =>
             /\ probe'.threw = FALSE
             /\ appState' = progress(appState, rec)
             /\ customTargets' = targetsAfterSave(customTargets, appState, rec, reduceSuggestions)
             /\ logs' = prependLog(logs, nextId, payloadOf(nextId))
             /\ draft' = draftEffect(appState, appState', DefaultDraft(today))
             /\ \A k \in StorageKeys :
                  storage'[k] = IF k \in probe'.accepts THEN Json(InMemoryAfter(k)) ELSE storage[k]
      /\ IsDamagedReload =>
             /\ probe'.raw \in {Absent, Garbage}
             /\ loadLS([storage EXCEPT ![probe'.key] = probe'.raw], probe'.key,
                       Fallback(probe'.key)) = Fallback(probe'.key)
             /\ InMemoryAfter(probe'.key) = Fallback(probe'.key)
    ]_vars

\* a save whose log the storage rejected: the log is in memory, not in storage
C21_Witness ==
  /\ probe.kind = "effects"
  /\ LS_KEYS.logs \notin probe.accepts
  /\ Len(logs.order) > 0
  /\ storage[LS_KEYS.logs] # Json(logs)

\* C23: when the process ends after any number of the writes that follow a
\* state change, every stored record reads back as its value from before the
\* change or as its value after it; and on a reload that finds one record
\* missing or unreadable that record takes its own default while the other
\* two are loaded as stored.
C23_RecordsIndependent ==
  [][ /\ probe'.kind = "crashed" =>
           \A k \in StorageKeys :
             \/ loadLS(storage', k, Fallback(k)) = loadLS(probe'.before, k, Fallback(k))
             \/ loadLS(storage', k, Fallback(k)) = InMemoryAfter(k)
      /\ IsDamagedReload =>
             /\ InMemoryAfter(probe'.key) = Fallback(probe'.key)
             /\ \A k \in StorageKeys \ {probe'.key} :
                  InMemoryAfter(k) = loadLS(storage, k, Fallback(k))
    ]_vars

\* the process ended after the pointer was written and before the log was:
\* storage holds the new pointer and the old logs
C23_Witness ==
  /\ probe.kind = "crashed"
  /\ probe.written = 1
  /\ storage[LS_KEYS.state] = Json(appState)
  /\ storage[LS_KEYS.state] # probe.before[LS_KEYS.state]
  /\ storage[LS_KEYS.logs] = probe.before[LS_KEYS.logs]
  /\ storage[LS_KEYS.logs] # Json(logs)


\* ---- custom targets

\* the stored custom targets whose path belongs to the session of pointer a
PathsOf(ct, a) == {p \in DOMAIN ct : startsWith(p, Digits(a.week) \o <<"-", a.dayId, "-">>)}

\* the paths a step deletes, and the paths it creates or updates
Removed == DOMAIN customTargets \ DOMAIN customTargets'
Written ==
  {p \in DOMAIN customTargets' : p \notin DOMAIN customTargets \/ customTargets'[p] # customTargets[p]}

IsTargetEdit ==
  \E i \in LoggableIdx, dir \in {-1, 1} : changeTargetSets(i, dir) \/ changeTargetReps(i, dir)

Without(ct, q) == [k \in DOMAIN ct \ {q} |-> ct[k]]

\* the custom targets the operations of the App can leave from the current
\* state: a press of a target stepper of any measured item, the applied
\* suggestions, the session-scoped clear, a save, the full reset
TargetOutcomes ==
  LET items == session.items
      edited(i, t) == setCustomTargetForItem(customTargets, appState, items[i + 1], i, t)
      current(i) == targetsByItemId[itemKeyOf(items[i + 1], i)]
  IN  {edited(i, [sets |-> Stepper(current(i).sets, dir, 1, 10), reps |-> current(i).reps]) :
         i \in MeasuredIdx(items), dir \in {-1, 1}}
      \cup {edited(i, [sets |-> current(i).sets, reps |-> Stepper(current(i).reps, dir, 1, 200)]) :
         i \in MeasuredIdx(items), dir \in {-1, 1}}
      \cup {applySuggestions(customTargets, appState, reduceSuggestions),
            clearSessionTargets(customTargets, appState),
            targetsAfterSave(customTargets, appState, rec, reduceSuggestions),
            EmptyMap,
            customTargets}

\* C22 (as the spec states it): a custom target can be deleted individually:
\* for each of two or more custom targets stored for the current session some
\* operation leaves the custom targets without that one and with the others.
C22_DeletedIndividually ==
  \A q \in PathsOf(customTargets, appState) :
    Cardinality(PathsOf(customTargets, appState)) >= 2 =>
      Without(customTargets, q) \in TargetOutcomes

\* C22 (amended): a custom target is created or updated only by a target edit
\* or by applying reduction suggestions (the button, or a reduce-save with
\* automatic progression on), and these delete nothing; custom targets are
\* deleted only all of the current session together (session-scoped clear) or
\* all of them (full reset): no operation deletes a single one.
C22_CreatedClearedReset ==
  [][ /\ Written # {} =>
           \/ IsTargetEdit
           \/ clickApply
           \/ IsSave /\ appState.smartProgression /\ rec = "reduce"
      /\ Written # {} => Removed = {}
      /\ Removed # {} =>
           \/ /\ Removed = PathsOf(customTargets, appState)
              /\ clickClearSessionTargets
           \/ IsReset
    ]_vars

\* after a reduce-save lowered the targets of the session, the clear removed
\* them all
C22_Witness ==
  /\ HasLog
  /\ HeadLog.week = appState.week
  /\ HeadLog.dayId = appState.dayId
  /\ HeadLog.recommendation = "reduce"
  /\ HeadLog.actualByItemId = EmptyMap
  /\ appState.smartProgression
  /\ PathsOf(customTargets, appState) = {}


\* ---- edits

\* the path under which the target of the item at position i of the current
\* session is stored
PathAt(i) == targetPath(appState.week, appState.dayId, itemKeyOf(session.items[i + 1], i))

\* C24: an edit of one item's target changes only the custom target stored
\* under that item's path, an edit of one item's actuals only that item's
\* entry of the draft, an edit of the effort level only the draft's effort;
\* each leaves the pointer, the toggle, the logs and every other item's
\* target and actuals as they were, and the entry holds the value written.
\* (An edit that writes the value already stored changes nothing at all.)
C24_EditsIndependent ==
  [][ /\ (ops' = ops + 1 /\ customTargets' # customTargets) =>
           \A i \in LoggableIdx, dir \in {-1, 1} :
             (changeTargetSets(i, dir) \/ changeTargetReps(i, dir)) =>
               /\ DOMAIN customTargets' = DOMAIN customTargets \cup {PathAt(i)}
               /\ \A q \in DOMAIN customTargets \ {PathAt(i)} : customTargets'[q] = customTargets[q]
               /\ customTargets'[PathAt(i)].sets \in 1..10
               /\ customTargets'[PathAt(i)].reps \in 1..200
               /\ appState' = appState /\ logs' = logs /\ draft' = draft
      /\ (ops' = ops + 1 /\ draft'.actualByItemId # draft.actualByItemId) =>
           \A i \in LoggableIdx :
             LET k == itemKeyOf(session.items[i + 1], i)
             IN  \A actual \in ActualInputs(targetsByItemId[k]) :
                   setActualForItem(i, actual) =>
                     /\ DOMAIN draft'.actualByItemId = DOMAIN draft.actualByItemId \cup {k}
                     /\ draft'.actualByItemId[k] = actual
                     /\ \A j \in DOMAIN draft.actualByItemId \ {k} :
                          draft'.actualByItemId[j] = draft.actualByItemId[j]
                     /\ draft'.rpe = draft.rpe
                     /\ draft'.date = draft.date
                     /\ draft'.completed = draft.completed
                     /\ appState' = appState /\ logs' = logs /\ customTargets' = customTargets
      /\ (ops' = ops + 1 /\ draft'.rpe # draft.rpe) =>
           \A v \in RpeInputs :
             setRpe(v) =>
               /\ draft' = [draft EXCEPT !.rpe = v]
               /\ appState' = appState /\ logs' = logs /\ customTargets' = customTargets
    ]_vars

\* a second target of the session edited while the first override and the
\* four logged results stay
C24_Witness ==
  /\ Cardinality(PathsOf(customTargets, appState)) = 2
  /\ Cardinality(DOMAIN draft.actualByItemId) = InitLogged
  /\ ~HasLog
  /\ ops = 1


\* C25: the session-scoped clear removes exactly the custom targets whose path
\* begins with the current week and day, and unless the step is a full reset
\* every path a step writes begins with the current week and day and every
\* custom target stored for another (week, day) stays as it is.
C25_OtherSessionsUntouched ==
  [][ LET mine == PathsOf(customTargets, appState)
      IN  /\ customTargets' = customTargets \/ IsReset \/
               /\ \A q \in DOMAIN customTargets \ mine :
                    q \in DOMAIN customTargets' /\ customTargets'[q] = customTargets[q]
               /\ Written \subseteq PathsOf(customTargets', appState)
          /\ (ops' = ops /\ nextId' = nextId /\ draft' = draft /\ appState' = appState) =>
               (clickClearSessionTargets =>
                  /\ Removed = mine
                  /\ Written = {}
                  /\ PathsOf(customTargets', appState) = {})
    ]_vars

\* a reduce-save in another session wrote that session's targets and kept the
\* target stored for week 5 day D
C25_Witness ==
  /\ HasLog
  /\ PathsOf(customTargets, appState) # {}
  /\ PathsOf(customTargets, [week |-> 5, dayId |-> "D"]) # {}
  /\ <<appState.week, appState.dayId>> # <<5, "D">>


\* ---- effort and compliance

\* every measured item of the list has actual sets and actual reps/duration
\* at or above its target
FullyCompliant(items, actuals, targets) ==
  \A i \in MeasuredIdx(items) :
    LET key == itemKeyOf(items[i + 1], i)
        t == TargetOf(targets, items[i + 1], key)
    IN  /\ FieldOr0(actuals, key, "setsDone") >= t.sets
        /\ FieldOr0(actuals, key, "repsDone") >= t.reps

\* C26: a session with measured items, all of them at or above both targets,
\* is recommended advance at every effort level 5..10; the effort penalty is
\* at most 1/5; and at effort 9 or 10 advance is recommended only when the
\* compliance is exactly 1.
C26_CompliantAdvances ==
  probe.kind = "score" =>
    /\ (MeasuredIdx(probe.items) # {}
          /\ FullyCompliant(probe.items, probe.actualByItemId, probe.targetsByItemId)) =>
         /\ probe.result.pct = One
         /\ \A rpe \in RpeRange :
              recommendationFromScore(scoreSession(probe.items, probe.actualByItemId,
                                                   probe.targetsByItemId, rpe)) = "advance"
    /\ RatGeq(<<1, 5>>, rpePenalty(probe.rpe))
    /\ (probe.rpe >= 9 /\ recommendationFromScore(probe.result) = "advance") =>
         /\ probe.result.pct = One
         /\ FullyCompliant(probe.items, probe.actualByItemId, probe.targetsByItemId)

\* two measured items, both met, scored at effort 10: advance
C26_Witness ==
  /\ probe.kind = "score"
  /\ probe.rpe = 10
  /\ Cardinality(MeasuredIdx(probe.items)) = 2
  /\ FullyCompliant(probe.items, probe.actualByItemId, probe.targetsByItemId)
  /\ probe.result.score = AdvanceThreshold
  /\ recommendationFromScore(probe.result) = "advance"


\* ---- repeated reduction

\* every measured target of the current session is 1x1
AllAtFloor == \A k \in DOMAIN targetsByItemId : targetsByItemId[k] = [sets |-> 1, reps |-> 1]

\* the number of reductions that take the plan's target of item it to 1x1:
\* one set a time, and 2 reps, 5 seconds or 1 minute a time
FloorSteps(it) ==
  LET delta == IF it.type = "time" THEN (IF it.unit = "min" THEN 1 ELSE 5) ELSE 2
  IN  Max(it.sets - 1, (it.reps - 1 + delta - 1) \div delta)

\* the same for the current session: the largest over its measured items
FloorStepsOfSession ==
  LET items == session.items
  IN  CHOOSE n \in {FloorSteps(items[i + 1]) : i \in MeasuredIdx(items)} :
        \A i \in MeasuredIdx(items) : FloorSteps(items[i + 1]) <= n

\* C27: with automatic progression on and nothing logged, the score is 0 and
\* the recommendation is reduce; the save keeps the pointer; no target of the
\* session increases or falls below 1, and every set or rep/duration target
\* above 1 becomes smaller; when every target is 1x1 suggestReduction proposes
\* nothing and the save changes no target; and a run of such saves from the
\* plan's targets has every target of the session at 1x1 after as many saves
\* as the slowest target needs steps, and from then on.
C27_ReduceToFloor ==
  /\ [][ (IsSave /\ appState.smartProgression /\ draft.actualByItemId = EmptyMap) =>
           LET before == targetsByItemId
               after == targetsByItemIdOf(appState', customTargets')
           IN  /\ scoreObj.score = Zero
               /\ rec = "reduce"
               /\ appState' = appState
               /\ DOMAIN after = DOMAIN before
               /\ \A k \in DOMAIN before :
                    /\ after[k].sets >= 1 /\ after[k].sets <= before[k].sets
                    /\ after[k].reps >= 1 /\ after[k].reps <= before[k].reps
                    /\ before[k].sets > 1 => after[k].sets = before[k].sets - 1
                    /\ before[k].reps > 1 => after[k].reps < before[k].reps
               /\ AllAtFloor => (reduceSuggestions = <<>> /\ customTargets' = customTargets)
               /\ reduceSuggestions = <<>> => AllAtFloor
        ]_vars
  /\ [](nextId >= FloorStepsOfSession => AllAtFloor)

\* a save pressed with every target of the session already at 1x1: nothing
\* logged, reduce recorded, the targets still 1x1
C27_Witness ==
  /\ AllAtFloor
  /\ Len(logs.order) >= 2
  /\ logs.byId[logs.order[2]].recommendation = "reduce"
  /\ HeadLog.recommendation = "reduce"
  /\ HeadLog.actualByItemId = EmptyMap
  /\ HeadLog.week = appState.week /\ HeadLog.dayId = appState.dayId
  /\ nextId < MaxReduceSaves


\* ---- the week over saves

\* C28: a save leaves the week or raises it by exactly 1; it raises it only
\* with automatic progression on, the recommendation advance, the day D and
\* the week below 20; a save recommended hold or reduce leaves the week.
C28_WeekOverSaves ==
  [][ IsSave =>
        /\ appState'.week >= appState.week
        /\ appState'.week <= appState.week + 1
        /\ appState'.week > appState.week =>
             /\ appState.smartProgression
             /\ rec = "advance"
             /\ appState.dayId = "D"
             /\ appState.week < LastWeek
        /\ appState'.week = appState.week \/ rec \notin {"hold", "reduce"}
        /\ appState'.smartProgression = appState.smartProgression
    ]_vars

\* the one save so far was recommended advance on day D of week 5 and the
\* App is in week 6
C28_Witness ==
  /\ Len(logs.order) = 1
  /\ HeadLog.recommendation = "advance"
  /\ HeadLog.dayId = "D"
  /\ appState.week = HeadLog.week + 1
  /\ appState.week <= LastWeek


\* ---- navigation

IsNavigation == goPrevWeek \/ goNextWeek \/ \E d \in DayIds : setDay(d)

\* C29: a press of previous week, next week or a day button creates no log
\* and changes no target; when it changes the (week, day) pointer the draft
\* becomes the default draft (nothing logged, effort 7, not completed, today's
\* date), and when it leaves the pointer (previous week at week 1, next week
\* at week 20, the current day) the draft stays as it is.
C29_NavigationResetsDraft ==
  [][ (ops' = ops + 1 /\ IsNavigation) =>
        /\ logs' = logs
        /\ customTargets' = customTargets
        /\ nextId' = nextId
        /\ appState'.smartProgression = appState.smartProgression
        /\ IF appState'.week # appState.week \/ appState'.dayId # appState.dayId
           THEN /\ draft'.actualByItemId = EmptyMap
                /\ draft'.rpe = 7
                /\ draft'.completed = FALSE
                /\ draft'.date = today
           ELSE draft' = draft
    ]_vars

\* next week pressed at week 5 day D with four results logged: week 6 day D,
\* nothing logged, nothing saved
C29_Witness ==
  /\ ops = 1
  /\ ~HasLog
  /\ appState.week = 6 /\ appState.dayId = "D"
  /\ draft.actualByItemId = EmptyMap
  /\ PathsOf(customTargets, [week |-> 5, dayId |-> "D"]) # {}


\* ---- monotonicity of the score

\* the actuals with one count of one measured item raised by one (a count
\* never entered is 0)
RaisedActuals(items, actuals) ==
  {Put(actuals, itemKeyOf(items[i + 1], i),
       Put(IF Has(actuals, itemKeyOf(items[i + 1], i))
           THEN actuals[itemKeyOf(items[i + 1], i)] ELSE EmptyMap,
           field, FieldOr0(actuals, itemKeyOf(items[i + 1], i), field) + 1)) :
     i \in MeasuredIdx(items), field \in {"setsDone", "repsDone"}}

\* the targets with the set target or the rep/duration target of one
\* measured item lowered by one, not below 1
LoweredTargets(items, targets) ==
  LET t(i) == TargetOf(targets, items[i + 1], itemKeyOf(items[i + 1], i))
  IN  {Put(targets, itemKeyOf(items[i + 1], i), [t(i) EXCEPT !.sets = @ - 1]) :
         i \in {j \in MeasuredIdx(items) : t(j).sets > 1}}
      \cup {Put(targets, itemKeyOf(items[i + 1], i), [t(i) EXCEPT !.reps = @ - 1]) :
         i \in {j \in MeasuredIdx(items) : t(j).reps > 1}}

\* C30: raising one actual count by one lowers neither the compliance nor the
\* score; lowering one target by one lowers neither; a higher effort level
\* leaves the compliance and does not raise the score.
C30_ScoreMonotone ==
  probe.kind = "score" =>
    /\ \A a2 \in RaisedActuals(probe.items, probe.actualByItemId) :
         LET r2 == scoreSession(probe.items, a2, probe.targetsByItemId, probe.rpe)
         IN  RatGeq(r2.pct, probe.result.pct) /\ RatGeq(r2.score, probe.result.score)
    /\ \A t2 \in LoweredTargets(probe.items, probe.targetsByItemId) :
         LET r2 == scoreSession(probe.items, probe.actualByItemId, t2, probe.rpe)
         IN  RatGeq(r2.pct, probe.result.pct) /\ RatGeq(r2.score, probe.result.score)
    /\ \A rpe2 \in RpeRange :
         rpe2 > probe.rpe =>
           LET r2 == scoreSession(probe.items, probe.actualByItemId, probe.targetsByItemId, rpe2)
           IN  r2.pct = probe.result.pct /\ RatGeq(probe.result.score, r2.score)

\* a partly met input at effort 8 where one more set raises the score, one
\* set less to do raises it, and effort 9 lowers it
C30_Witness ==
  /\ probe.kind = "score"
  /\ probe.rpe = 8
  /\ \E a2 \in RaisedActuals(probe.items, probe.actualByItemId) :
       scoreSession(probe.items, a2, probe.targetsByItemId, probe.rpe).score # probe.result.score
  /\ \E t2 \in LoweredTargets(probe.items, probe.targetsByItemId) :
       scoreSession(probe.items, probe.actualByItemId, t2, probe.rpe).score # probe.result.score
  /\ scoreSession(probe.items, probe.actualByItemId, probe.targetsByItemId, 9).score
       # probe.result.score


====
